---- MODULE Spec2Model ----
(***************************************************************************)
(* Model of src/components/AudioProcessor.tsx: the AudioProcessor React    *)
(* component.  The state is the component's refs (audioContextRef,         *)
(* audioProcessorsRef), the values its hooks deliver (localParticipant,    *)
(* remoteParticipants), the audio graph it builds (every chain            *)
(* processAudioStream ever wired, registered or not, with the closure      *)
(* variable lastLogTime of its onaudioprocess callback), the records the   *)
(* callbacks write to the console, and the length of the debugInfo list.   *)
(*                                                                         *)
(* One action is one React commit or one host callback: Mount, LocalChange,*)
(* RemoteChange, AudioCallback, Unmount, and Tick for the passage of       *)
(* Date.now().  Times are milliseconds.  Sample amplitudes and RMS levels  *)
(* are in units of 1/10000 (the four decimals of rms.toFixed(4)).          *)
(***************************************************************************)
EXTENDS Integers, Sequences, FiniteSets, TLC

VARIABLES
    phase,               \* "initial" | "mounted" | "unmounted"
    localParticipant,    \* useLocalParticipant(): NoParticipant or a participant
    remoteParticipants,  \* useRemoteParticipants(): a sequence of participants
    audioContextRef,     \* audioContextRef.current: 0 (null) or an index of contexts
    contexts,            \* every AudioContext constructed: "open" | "closed"
    chains,              \* every chain processAudioStream wired, in creation order
    audioProcessorsRef,  \* audioProcessorsRef.current: sessionId -> index of chains
    debugInfo,           \* Len of the debugInfo state list
    now,                 \* Date.now()
    events,              \* the records onaudioprocess wrote with console.log
    failed,              \* whether processAudioStream's catch has run (console.error)
    tornDown,            \* history: Len(chains) when the cleanup last ran
    alone,               \* history: each chain's callback run on the chain's frames only
    last                 \* history: the step just taken and its inputs

vars == <<phase, localParticipant, remoteParticipants, audioContextRef, contexts,
          chains, audioProcessorsRef, debugInfo, now, events, failed, tornDown, alone,
          last>>

----------------------------------------------------------------------------
(* Bounds of the model *)

MaxChains == 2
MaxContexts == 2
MaxTicks == 2

(* Program constants *)

LOG_INTERVAL == 500
RMS_THRESHOLD == 100
DEBUG_KEEP == 20

NoStream == "none"
NoParticipant == [sessionId |-> "none", audioStream |-> NoStream]

\* Date.now() at the first observation: far above LOG_INTERVAL, as any real
\* epoch time is, so that now - 0 > LOG_INTERVAL for a fresh chain.
StartTime == LOG_INTERVAL + LOG_INTERVAL

MaxTime == StartTime + MaxTicks * (LOG_INTERVAL + 1)

Min(a, b) == IF a < b THEN a ELSE b

EmptyMap == [k \in {} |-> 0]

Put(m, k, v) == [x \in (DOMAIN m) \cup {k} |-> IF x = k THEN v ELSE m[x]]

----------------------------------------------------------------------------
(* addDebugLog: keep the last DEBUG_KEEP entries, then append one. *)

addDebugLog(len) == Min(len, DEBUG_KEEP) + 1

(* The heap a commit works on: the part of the state the effects change. *)

Heap == [chains |-> chains, registry |-> audioProcessorsRef, debugInfo |-> debugInfo,
         contexts |-> contexts, ctx |-> audioContextRef, failed |-> failed,
         threw |-> {},      \* sessions whose construction threw in this commit
         stale |-> FALSE]   \* processAudioStream found no context, or a closed one

NewChain(stream, sessionId, isLocal, ctx) ==
    [sessionId |-> sessionId, stream |-> stream, isLocal |-> isLocal, ctx |-> ctx,
     sourceToAnalyser |-> TRUE,          \* sourceNode.connect(analyserNode)
     analyserToProcessor |-> TRUE,       \* analyserNode.connect(processorNode)
     processorToDestination |-> TRUE,    \* processorNode.connect(destination)
     onaudioprocess |-> TRUE,
     lastLogTime |-> 0]

\* The registry entry written before the nodes are built, so that it stays behind
\* when the construction throws.
processAudioStreamRegistersFirst(h, stream, sessionId, isLocal, bad) ==
    IF h.ctx = 0 THEN [h EXCEPT !.stale = TRUE]
    ELSE IF sessionId \in bad \/ h.contexts[h.ctx] = "closed"
         THEN [h EXCEPT !.failed = TRUE, !.threw = h.threw \cup {sessionId},
                        !.stale = h.stale \/ h.contexts[h.ctx] = "closed",
                        !.registry = Put(h.registry, sessionId, 0)]
         ELSE [h EXCEPT
                 !.chains = Append(h.chains, NewChain(stream, sessionId, isLocal, h.ctx)),
                 !.registry = Put(h.registry, sessionId, Len(h.chains) + 1),
                 !.debugInfo = addDebugLog(h.debugInfo)]

\* processAudioStream.  bad: the sessions whose stream makes createMediaStreamSource
\* raise at this moment (no audio track); it raises on a closed context too.
\* Nothing has been created by then, and the catch only calls console.error.
processAudioStream(h, stream, sessionId, isLocal, bad) ==
    IF h.ctx = 0 THEN [h EXCEPT !.stale = TRUE]
    ELSE IF sessionId \in bad \/ h.contexts[h.ctx] = "closed"
         THEN [h EXCEPT !.failed = TRUE, !.threw = h.threw \cup {sessionId},
                        !.stale = h.stale \/ h.contexts[h.ctx] = "closed"]
         ELSE [h EXCEPT
                 !.chains = Append(h.chains, NewChain(stream, sessionId, isLocal, h.ctx)),
                 !.registry = Put(h.registry, sessionId, Len(h.chains) + 1),
                 !.debugInfo = addDebugLog(h.debugInfo)]

HasStream(p) == p /= NoParticipant /\ p.audioStream /= NoStream

\* A setup that constructs an AudioContext only when the ref holds none, and
\* otherwise goes on with the one the cleanup has closed.
setupEffectReusesContext(h, lp, bad) ==
    LET h1 == IF h.ctx = 0
              THEN [h EXCEPT !.contexts = Append(h.contexts, "open"),
                             !.ctx = Len(h.contexts) + 1,
                             !.debugInfo = addDebugLog(h.debugInfo)]
              ELSE [h EXCEPT !.debugInfo = addDebugLog(h.debugInfo)]
    IN  IF HasStream(lp)
        THEN processAudioStream([h1 EXCEPT !.debugInfo = addDebugLog(h1.debugInfo)],
                                lp.audioStream, lp.sessionId, TRUE, bad)
        ELSE h1

\* The first effect's setup: a new AudioContext, then the local participant's chain.
setupEffect(h, lp, bad) ==
    LET h1 == [h EXCEPT !.contexts = Append(h.contexts, "open"),
                        !.ctx = Len(h.contexts) + 1,
                        !.debugInfo = addDebugLog(h.debugInfo)]
    IN  IF HasStream(lp)
        THEN processAudioStream([h1 EXCEPT !.debugInfo = addDebugLog(h1.debugInfo)],
                                lp.audioStream, lp.sessionId, TRUE, bad)
        ELSE h1

\* A cleanup that disconnects all three nodes of a chain.
disconnectChainAll(c) ==
    [c EXCEPT !.sourceToAnalyser = FALSE, !.analyserToProcessor = FALSE,
              !.processorToDestination = FALSE]

\* sourceNode.disconnect(); processorNode.disconnect(): the analyser keeps its output.
disconnectChain(c) ==
    [c EXCEPT !.sourceToAnalyser = FALSE, !.processorToDestination = FALSE]

\* The context left open.
closeContextNot(cs, ctx) == cs

closeContext(cs, ctx) ==
    IF ctx = 0 THEN cs ELSE [cs EXCEPT ![ctx] = "closed"]

Registered(h) == {h.registry[k] : k \in DOMAIN h.registry}

\* The first effect's cleanup.
cleanupEffect(h) ==
    [h EXCEPT
       !.contexts = closeContext(h.contexts, h.ctx),
       !.chains = [i \in 1..Len(h.chains) |->
                     IF i \in Registered(h) THEN disconnectChain(h.chains[i])
                     ELSE h.chains[i]],
       !.registry = EmptyMap,
       !.debugInfo = addDebugLog(h.debugInfo)]

\* The four addDebugLog calls that open the loop body (lines 116-120).
logParticipant(len) == addDebugLog(addDebugLog(addDebugLog(addDebugLog(len))))

\* The registry lookup left out.
alreadyProcessedNever(h, sessionId) == FALSE

\* Whether the loop body skips processAudioStream for a registered sessionId.
alreadyProcessed(h, sessionId) == sessionId \in DOMAIN h.registry

\* The loop body without its test of participant.audioStream.
remoteParticipantStepAnyStream(h, p, bad) ==
    LET h1 == [h EXCEPT !.debugInfo = logParticipant(h.debugInfo)]
    IN  IF ~alreadyProcessed(h1, p.sessionId)
        THEN processAudioStream([h1 EXCEPT !.debugInfo = addDebugLog(h1.debugInfo)],
                                p.audioStream, p.sessionId, FALSE, bad)
        ELSE h1

\* The loop body with a lookup that also compares the stream: a registered session
\* that shows another stream gets a new chain and its entry is overwritten.
remoteParticipantStepRebinds(h, p, bad) ==
    LET h1 == [h EXCEPT !.debugInfo = logParticipant(h.debugInfo)]
    IN  IF p.audioStream /= NoStream
        THEN IF \/ ~alreadyProcessed(h1, p.sessionId)
                \/ h1.chains[h1.registry[p.sessionId]].stream /= p.audioStream
             THEN processAudioStream([h1 EXCEPT !.debugInfo = addDebugLog(h1.debugInfo)],
                                     p.audioStream, p.sessionId, FALSE, bad)
             ELSE h1
        ELSE [h1 EXCEPT !.debugInfo = addDebugLog(h1.debugInfo)]

\* The body of remoteParticipants.forEach for one participant.
remoteParticipantStep(h, p, bad) ==
    LET h1 == [h EXCEPT !.debugInfo = logParticipant(h.debugInfo)]
    IN  IF p.audioStream /= NoStream
        THEN IF ~alreadyProcessed(h1, p.sessionId)
             THEN processAudioStream([h1 EXCEPT !.debugInfo = addDebugLog(h1.debugInfo)],
                                     p.audioStream, p.sessionId, FALSE, bad)
             ELSE h1
        ELSE [h1 EXCEPT !.debugInfo = addDebugLog(h1.debugInfo)]

RECURSIVE remoteLoop(_, _, _, _)
remoteLoop(h, list, j, bad) ==
    IF j > Len(list) THEN h
    ELSE remoteLoop(remoteParticipantStep(h, list[j], bad), list, j + 1, bad)

\* The second effect.
remoteEffect(h, list, bad) == remoteLoop(h, list, 1, bad)

----------------------------------------------------------------------------
(* onaudioprocess *)

RECURSIVE SumSquares(_, _)
SumSquares(buf, n) == IF n = 0 THEN 0 ELSE buf[n] * buf[n] + SumSquares(buf, n - 1)

\* The comparison written rms >= 0.01.
rmsAtLeastThreshold(buf) ==
    SumSquares(buf, Len(buf)) >= RMS_THRESHOLD * RMS_THRESHOLD * Len(buf)

\* rms > 0.01 where rms = sqrt(sum of squares / length): compared on the squares.
rmsAboveThreshold(buf) ==
    SumSquares(buf, Len(buf)) > RMS_THRESHOLD * RMS_THRESHOLD * Len(buf)

\* The condition without its elapsed-time half.
shouldLogUnthrottled(buf, t, lastLogTime) == rmsAboveThreshold(buf)

\* The elapsed-time half written now - lastLogTime >= LOG_INTERVAL.
shouldLogAtInterval(buf, t, lastLogTime) ==
    rmsAboveThreshold(buf) /\ t - lastLogTime >= LOG_INTERVAL

shouldLog(buf, t, lastLogTime) ==
    rmsAboveThreshold(buf) /\ t - lastLogTime > LOG_INTERVAL

\* The closure state of a callback that has not run yet, and the callback run
\* on a closure of its own: its lastLogTime and the times of its console.log.
Fresh == [lastLogTime |-> 0, times |-> << >>]

RunAlone(a, buf, t) ==
    IF shouldLog(buf, t, a.lastLogTime)
    THEN [lastLogTime |-> t, times |-> Append(a.times, t)]
    ELSE a

\* audioprocess events reach a ScriptProcessorNode that has an input or an output
\* connected, on a context that has not been closed.
Firing(i) ==
    /\ chains[i].onaudioprocess
    /\ chains[i].analyserToProcessor \/ chains[i].processorToDestination
    /\ contexts[chains[i].ctx] = "open"

----------------------------------------------------------------------------
(* Actions *)

\* What the last step was: its kind and inputs, the number of chains before it,
\* the sessions whose construction threw in it and, for a list change, in the
\* step before it.
Step(op, chain, buf, sessionId, h) ==
    [op |-> op, chain |-> chain, buf |-> buf, sessionId |-> sessionId,
     nChains |-> Len(chains), threw |-> h.threw,
     threwBefore |-> IF op = "remote" THEN last.threw ELSE {},
     stale |-> h.stale]

NoBuf == << >>

Commit(h) ==
    /\ Len(h.chains) <= MaxChains
    /\ Len(h.contexts) <= MaxContexts
    /\ chains' = h.chains
    /\ audioProcessorsRef' = h.registry
    /\ debugInfo' = h.debugInfo
    /\ contexts' = h.contexts
    /\ audioContextRef' = h.ctx
    /\ failed' = h.failed
    /\ alone' = [i \in 1..Len(h.chains) |-> IF i <= Len(alone) THEN alone[i] ELSE Fresh]

\* First render: both effects run, the setup effect first.
Mount(lp, list, bad) ==
    /\ phase = "initial"
    /\ LET h == remoteEffect(setupEffect(Heap, lp, bad), list, bad)
       IN  Commit(h) /\ last' = Step("mount", 0, NoBuf, "", h)
    /\ phase' = "mounted"
    /\ localParticipant' = lp
    /\ remoteParticipants' = list
    /\ UNCHANGED <<now, events, tornDown>>

\* useLocalParticipant() returns a value that is not Object.is-equal to the last
\* one (a new object, or undefined after an object): cleanup, then setup.
LocalChange(lp, bad) ==
    /\ phase = "mounted"
    /\ lp /= NoParticipant \/ localParticipant /= NoParticipant
    /\ LET h == setupEffect(cleanupEffect(Heap), lp, bad)
       IN  Commit(h) /\ last' = Step("local", 0, NoBuf, "", h)
    /\ localParticipant' = lp
    /\ tornDown' = Len(chains)
    /\ UNCHANGED <<phase, remoteParticipants, now, events>>

\* useRemoteParticipants() returns a new reference: the second effect runs.
RemoteChange(list, bad) ==
    /\ phase = "mounted"
    /\ LET h == remoteEffect(Heap, list, bad)
       IN  Commit(h) /\ last' = Step("remote", 0, NoBuf, "", h)
    /\ remoteParticipants' = list
    /\ UNCHANGED <<phase, localParticipant, now, events, tornDown>>

\* lastLogTime declared once for the component instead of once per call of
\* processAudioStream: an event of one chain moves the timestamp of all.
AudioCallbackSharedThrottle(i, buf) ==
    /\ i \in 1..Len(chains)
    /\ Firing(i)
    /\ IF shouldLog(buf, now, chains[i].lastLogTime)
       THEN /\ chains' = [j \in 1..Len(chains) |-> [chains[j] EXCEPT !.lastLogTime = now]]
            /\ events' = Append(events, [sessionId |-> chains[i].sessionId,
                                         chain |-> i, time |-> now])
       ELSE UNCHANGED <<chains, events>>
    /\ alone' = [alone EXCEPT ![i] = RunAlone(alone[i], buf, now)]
    /\ last' = Step("audio", i, buf, "", Heap)
    /\ UNCHANGED <<phase, localParticipant, remoteParticipants, audioContextRef,
                   contexts, audioProcessorsRef, debugInfo, now, failed, tornDown>>

\* The host delivers an audioprocess event to chain i.
AudioCallback(i, buf) ==
    /\ i \in 1..Len(chains)
    /\ Firing(i)
    /\ IF shouldLog(buf, now, chains[i].lastLogTime)
       THEN /\ chains' = [chains EXCEPT ![i].lastLogTime = now]
            /\ events' = Append(events, [sessionId |-> chains[i].sessionId,
                                         chain |-> i, time |-> now])
       ELSE UNCHANGED <<chains, events>>
    /\ alone' = [alone EXCEPT ![i] = RunAlone(alone[i], buf, now)]
    /\ last' = Step("audio", i, buf, "", Heap)
    /\ UNCHANGED <<phase, localParticipant, remoteParticipants, audioContextRef,
                   contexts, audioProcessorsRef, debugInfo, now, failed, tornDown>>

\* The component is removed: the cleanup runs; the state update of its
\* addDebugLog goes to a component that no longer renders.
Unmount ==
    /\ phase = "mounted"
    /\ LET h == cleanupEffect(Heap)
       IN  Commit([h EXCEPT !.debugInfo = debugInfo]) /\ last' = Step("unmount", 0, NoBuf, "", h)
    /\ phase' = "unmounted"
    /\ tornDown' = Len(chains)
    /\ UNCHANGED <<localParticipant, remoteParticipants, now, events>>

\* processAudioStream called on its own, as either effect calls it.
Attach(stream, sessionId, isLocal, bad) ==
    /\ phase = "mounted"
    /\ LET h == processAudioStream(Heap, stream, sessionId, isLocal, bad)
       IN  Commit(h) /\ last' = Step("attach", 0, NoBuf, sessionId, h)
    /\ UNCHANGED <<phase, localParticipant, remoteParticipants, now, events, tornDown>>

Tick(d) ==
    /\ now + d <= MaxTime
    /\ now' = now + d
    /\ last' = Step("tick", 0, NoBuf, "", Heap)
    /\ UNCHANGED <<phase, localParticipant, remoteParticipants, audioContextRef,
                   contexts, chains, audioProcessorsRef, debugInfo, events, failed,
                   tornDown, alone>>

Init ==
    /\ phase = "initial"
    /\ localParticipant = NoParticipant
    /\ remoteParticipants = << >>
    /\ audioContextRef = 0
    /\ contexts = << >>
    /\ chains = << >>
    /\ audioProcessorsRef = EmptyMap
    /\ debugInfo = 0
    /\ now = StartTime
    /\ events = << >>
    /\ failed = FALSE
    /\ tornDown = 0
    /\ alone = << >>
    /\ last = [op |-> "init", chain |-> 0, buf |-> NoBuf, sessionId |-> "", nChains |-> 0,
               threw |-> {}, threwBefore |-> {}, stale |-> FALSE]

----------------------------------------------------------------------------
(* The values the hooks and the host deliver *)

SessionIds == {"s1", "s2"}
Streams == {"a"}

\* A participant handle as the component reads it: sessionId and audioStream.
Participants == [sessionId : SessionIds, audioStream : Streams \cup {NoStream}]

\* The lists useRemoteParticipants() can return: a sessionId is unique in a call.
ParticipantLists ==
    {<< >>} \cup {<<p>> : p \in Participants}
            \cup {l \in {<<p, q>> : p \in Participants, q \in Participants} :
                     l[1].sessionId /= l[2].sessionId}

\* The sessions of lp and list that expose a stream.
WithStream(lp, list) ==
    {p.sessionId : p \in {q \in {lp} \cup {list[j] : j \in 1..Len(list)} : HasStream(q)}}

\* The sessions on whose stream createMediaStreamSource raises during one
\* commit: any of those the commit can hand to it.
BadStreamSets(lp, list) == SUBSET WithStream(lp, list)

\* Frames getFloatTimeDomainData can deliver (two samples each): silence, RMS
\* exactly at the threshold, RMS just above it.
Silence == <<0, 0>>
AtThreshold == <<RMS_THRESHOLD, 0 - RMS_THRESHOLD>>
AboveThreshold == <<RMS_THRESHOLD, RMS_THRESHOLD + 1>>

TickSteps == {LOG_INTERVAL, LOG_INTERVAL + 1}

\* Every commit and callback, over all participant values, with silent streams
\* and at one reading of the clock.
Next ==
    \/ \E lp \in Participants \cup {NoParticipant}, list \in ParticipantLists :
          \E bad \in BadStreamSets(lp, list) : Mount(lp, list, bad)
    \/ \E lp \in Participants \cup {NoParticipant} :
          \E bad \in BadStreamSets(lp, << >>) : LocalChange(lp, bad)
    \/ \E list \in ParticipantLists :
          \E bad \in BadStreamSets(NoParticipant, list) : RemoteChange(list, bad)
    \/ \E i \in 1..MaxChains : AudioCallback(i, Silence)
    \/ Unmount

Spec == Init /\ [][Next]_vars

\* One local and one remote participant with the clock running: their streams
\* always have an audio track.
TimedLocal == [sessionId |-> "s1", audioStream |-> "a"]

TimedRemote == [sessionId |-> "s2", audioStream |-> "a"]

NextTimed ==
    \/ Mount(TimedLocal, << >>, {})
    \/ LocalChange(TimedLocal, {})
    \/ RemoteChange(<<TimedRemote>>, {})
    \/ \E i \in 1..MaxChains, buf \in {Silence, AtThreshold, AboveThreshold} :
          AudioCallback(i, buf)
    \/ Unmount
    \/ \E d \in TickSteps : Tick(d)

SpecTimed == Init /\ [][NextTimed]_vars

\* processAudioStream under arbitrary calls on the context of a mounted component.
\* Remote participants that change their stream: two MediaStream objects per
\* session, beside a local participant that keeps its own.
OtherStreams == {"a", "b"}

StreamParticipants == [sessionId : SessionIds, audioStream : OtherStreams \cup {NoStream}]

StreamLists ==
    {<< >>} \cup {<<p>> : p \in StreamParticipants}
            \cup {l \in {<<p, q>> : p \in StreamParticipants, q \in StreamParticipants} :
                     l[1].sessionId /= l[2].sessionId}

NextStreams ==
    \/ \E list \in StreamLists : Mount(TimedLocal, list, {})
    \/ LocalChange(TimedLocal, {})
    \/ \E list \in StreamLists : RemoteChange(list, {})
    \/ \E i \in 1..MaxChains : AudioCallback(i, Silence)
    \/ Unmount

SpecStreams == Init /\ [][NextStreams]_vars

NextAttach ==
    \/ \E lp \in Participants \cup {NoParticipant} : Mount(lp, << >>, {})
    \/ \E sessionId \in SessionIds, stream \in Streams, isLocal \in BOOLEAN :
          \E bad \in SUBSET {sessionId} : Attach(stream, sessionId, isLocal, bad)
    \/ \E i \in 1..MaxChains : AudioCallback(i, Silence)
    \/ Unmount

SpecAttach == Init /\ [][NextAttach]_vars

----------------------------------------------------------------------------
(* Properties *)

\* A chain with its three connections made and its callback installed.
Wired(c) ==
    /\ c.sourceToAnalyser /\ c.analyserToProcessor /\ c.processorToDestination
    /\ c.onaudioprocess

ChainsOf(sessionId) == {i \in 1..Len(chains) : chains[i].sessionId = sessionId}

WiredChainsOf(sessionId) == {i \in ChainsOf(sessionId) : Wired(chains[i])}

ContextOpen == audioContextRef /= 0 /\ contexts[audioContextRef] = "open"

\* C1: a call of processAudioStream for a sessionId that is already in the
\* registry, on an open context, changes neither the registry nor the graph:
\* still one entry and one wired set of nodes for that sessionId.
C1_AttachIdempotent ==
    [][(/\ last'.op = "attach"
        /\ ContextOpen
        /\ last'.sessionId \in DOMAIN audioProcessorsRef)
       => /\ audioProcessorsRef' = audioProcessorsRef
          /\ chains' = chains
          /\ Cardinality({i \in 1..Len(chains') :
                             /\ chains'[i].sessionId = last'.sessionId
                             /\ Wired(chains'[i])}) = 1]_vars

\* C2: in every reachable state each sessionId has at most one wired chain with
\* an installed callback, whether the registry holds the chain or not.
C2_AtMostOneWiredChain ==
    \A sessionId \in SessionIds : Cardinality(WiredChainsOf(sessionId)) <= 1

\* A session attached, torn down and attached again: its old chain is outside
\* the registry, its new chain inside.
C2_Witness ==
    \E sessionId \in DOMAIN audioProcessorsRef :
        /\ Cardinality(ChainsOf(sessionId)) = 2
        /\ Cardinality(WiredChainsOf(sessionId)) = 1
        /\ audioProcessorsRef[sessionId] \in WiredChainsOf(sessionId)

KnownWithStream ==
    {p.sessionId : p \in {q \in {localParticipant} \cup
                                {remoteParticipants[j] : j \in 1..Len(remoteParticipants)} :
                             HasStream(q)}}

\* C3: while the component is mounted and no construction has failed, the local
\* participant and every listed remote participant that exposes a stream has a
\* chain in the registry.
C3_EveryStreamMonitored ==
    (phase = "mounted" /\ ~failed) => KnownWithStream \subseteq DOMAIN audioProcessorsRef

\* The sessions a remote-list notification has to attach: listed, with a stream,
\* and not in the registry `before`.
Eligible(list, before) ==
    {list[j].sessionId : j \in {k \in 1..Len(list) :
        list[k].audioStream /= NoStream /\ list[k].sessionId \notin DOMAIN before}}

C5_TeardownComplete ==
    /\ \A k \in DOMAIN audioProcessorsRef : audioProcessorsRef[k] > tornDown
    /\ phase = "unmounted" => DOMAIN audioProcessorsRef = {}
    /\ last.op = "audio" => last.chain > tornDown

\* A callback has just fired on a chain built after a teardown that left at
\* least one older chain behind.
C5_Witness ==
    /\ last.op = "audio"
    /\ tornDown >= 1
    /\ chains[1].onaudioprocess /\ chains[1].analyserToProcessor

\* C6: while the component stays mounted no step removes a registry entry or
\* disconnects a registered chain's nodes.
C6_DestroyedOnlyByUnmount ==
    [][(phase = "mounted" /\ phase' = "mounted") =>
        \A k \in DOMAIN audioProcessorsRef :
            /\ k \in DOMAIN audioProcessorsRef'
            /\ audioProcessorsRef'[k] = audioProcessorsRef[k]
            /\ Wired(chains'[audioProcessorsRef[k]])]_vars

EventsOfChain(i) == SelectSeq(events, LAMBDA e : e.chain = i)

EventsOfSession(sessionId) == SelectSeq(events, LAMBDA e : e.sessionId = sessionId)

OneSecond == 2 * LOG_INTERVAL

\* Consecutive events of es are at least `gap` apart.
Spaced(es, gap) == \A j \in 1..(Len(es) - 1) : es[j + 1].time - es[j].time >= gap

\* No window of one second holds three events of es (es is in time order).
AtMostTwoPerSecond(es) ==
    \A j \in 1..(Len(es) - 2) : es[j + 2].time - es[j].time >= OneSecond

\* C7: two consecutive events of one chain are at least LOG_INTERVAL apart, and
\* no one-second window holds three events of one chain.
C7_ChainThrottle ==
    \A i \in 1..Len(chains) :
        Spaced(EventsOfChain(i), LOG_INTERVAL) /\ AtMostTwoPerSecond(EventsOfChain(i))

\* One chain has emitted three events.
C7_Witness == \E i \in 1..Len(chains) : Len(EventsOfChain(i)) = 3

\* C8: no one-second window holds three events of one sessionId, whatever
\* chains emitted them.
C8_ParticipantThrottle ==
    \A sessionId \in SessionIds : AtMostTwoPerSecond(EventsOfSession(sessionId))

RmsAtMost(buf, level) == SumSquares(buf, Len(buf)) <= level * level * Len(buf)

NeverEmitted(i) == EventsOfChain(i) = << >>

LastEventTime(i) == EventsOfChain(i)[Len(EventsOfChain(i))].time

\* What an audioprocess step on chain i with frame buf does, when `due` is the
\* elapsed-time condition: it emits one event exactly when the RMS is above the
\* threshold and `due` holds, and sets lastLogTime to now exactly then.
AudioStepEmitsWhen(i, buf, due) ==
    LET emitted == events' /= events
    IN  /\ emitted <=> (~RmsAtMost(buf, RMS_THRESHOLD) /\ due)
        /\ emitted => events' = Append(events, [sessionId |-> chains[i].sessionId,
                                                 chain |-> i, time |-> now])
        /\ chains'[i].lastLogTime = IF emitted THEN now ELSE chains[i].lastLogTime

\* C9 as stated: the event is emitted when at least LOG_INTERVAL has elapsed
\* since the chain's last event (elapsed >= 500), or the chain never emitted.
C9_EmitsAtInterval ==
    [][last'.op = "audio" =>
        AudioStepEmitsWhen(last'.chain, last'.buf,
            NeverEmitted(last'.chain)
            \/ now - LastEventTime(last'.chain) >= LOG_INTERVAL)]_vars

\* C9 amended: the event is emitted when more than LOG_INTERVAL has elapsed
\* since the chain's last event (elapsed > 500), or the chain never emitted.
C9_EmitsAfterInterval ==
    [][last'.op = "audio" =>
        AudioStepEmitsWhen(last'.chain, last'.buf,
            NeverEmitted(last'.chain)
            \/ now - LastEventTime(last'.chain) > LOG_INTERVAL)]_vars

\* A frame above the threshold has just arrived exactly LOG_INTERVAL after the
\* chain's last event, which is still its last.
C9_Witness ==
    /\ last.op = "audio"
    /\ ~RmsAtMost(last.buf, RMS_THRESHOLD)
    /\ ~NeverEmitted(last.chain)
    /\ LastEventTime(last.chain) = now - LOG_INTERVAL

\* C10: a frame whose RMS is at most the threshold emits nothing and leaves
\* lastLogTime as it was.
C10_QuietNeverEmits ==
    [][(last'.op = "audio" /\ RmsAtMost(last'.buf, RMS_THRESHOLD)) =>
        /\ events' = events
        /\ chains'[last'.chain].lastLogTime = chains[last'.chain].lastLogTime]_vars

\* A frame with RMS exactly at the threshold has just arrived on a chain that
\* never emitted, so that the elapsed-time condition held.
C10_Witness ==
    /\ last.op = "audio"
    /\ last.buf = AtThreshold
    /\ chains[last.chain].lastLogTime = 0
    /\ now - chains[last.chain].lastLogTime > LOG_INTERVAL
    /\ NeverEmitted(last.chain)

----------------------------------------------------------------------------
(* Construction failures *)

Listed(list) == {list[j] : j \in 1..Len(list)}

\* The participants a commit of the given kind looks at for a stream.
Shown(op, lp, list) ==
    CASE op = "mount"  -> {lp} \cup Listed(list)
      [] op = "local"  -> {lp}
      [] op = "remote" -> Listed(list)
      [] OTHER         -> {}

\* C11: when the construction of a chain throws, the commit still runs to its end
\* (every participant it was shown with a stream is afterwards registered, or its
\* own construction threw), the session whose construction threw is not in the
\* registry and has no more chains than before, and a later commit that is shown
\* that participant with a stream calls processAudioStream for it again: the
\* session ends that commit registered, or its construction threw again.
C11_FailureCaughtAndRetried ==
    [][/\ \A k \in last'.threw :
             /\ k \notin DOMAIN audioProcessorsRef'
             /\ Cardinality({i \in 1..Len(chains') : chains'[i].sessionId = k})
                  = Cardinality(ChainsOf(k))
       /\ \A p \in Shown(last'.op, localParticipant', remoteParticipants') :
             HasStream(p) => p.sessionId \in (DOMAIN audioProcessorsRef') \cup last'.threw
      ]_vars

\* A list change right after a commit in which the construction for a session
\* threw: this time a chain is built for that session and registered.
C11_Witness ==
    /\ last.op = "remote"
    /\ \E k \in last.threwBefore :
          /\ k \in DOMAIN audioProcessorsRef
          /\ audioProcessorsRef[k] > last.nChains
          /\ Wired(chains[audioProcessorsRef[k]])

\* C12: a call of processAudioStream whose construction threw has added one entry
\* to the debug log, as addDebugLog adds it.
C12_FailureLogged ==
    [][(last'.op = "attach" /\ last'.threw /= {}) =>
        debugInfo' = addDebugLog(debugInfo)]_vars

----------------------------------------------------------------------------
(* The debug log *)

\* C13: the debug log never holds more than DEBUG_KEEP entries.
C13_DebugLogBounded == debugInfo <= DEBUG_KEEP

----------------------------------------------------------------------------
(* The AudioContext *)

\* C14: while the component is mounted exactly one AudioContext has been
\* constructed, the one of the mount, and it is open.
C14_OneContextPerMount ==
    phase = "mounted" => Len(contexts) = 1 /\ contexts[1] = "open"

----------------------------------------------------------------------------
(* The registry between two teardowns *)

\* A chain but for its throttle timestamp.
Binding(c) == [c EXCEPT !.lastLogTime = 0]

\* C15: a step that is not a teardown (neither a change of the local participant
\* nor the unmount) removes no registry entry, leaves every entry on the chain
\* it had, and leaves that chain on its stream, context and connections: so for a
\* list change whatever the list says of a registered session (absent, without
\* a stream, with another stream).
C15_RemoteKeepsEntries ==
    [][last'.op \notin {"local", "unmount"} =>
        \A k \in DOMAIN audioProcessorsRef :
            /\ k \in DOMAIN audioProcessorsRef'
            /\ audioProcessorsRef'[k] = audioProcessorsRef[k]
            /\ Binding(chains'[audioProcessorsRef[k]]) = Binding(chains[audioProcessorsRef[k]])
      ]_vars

\* A list change has just shown one registered session with a stream other than
\* the one its chain taps, and has not shown another registered session with a
\* stream at all.
C15_Witness ==
    /\ last.op = "remote"
    /\ \E p \in Listed(remoteParticipants) :
          /\ p.sessionId \in DOMAIN audioProcessorsRef
          /\ audioProcessorsRef[p.sessionId] <= last.nChains
          /\ p.audioStream \notin {NoStream, chains[audioProcessorsRef[p.sessionId]].stream}
    /\ \E k \in DOMAIN audioProcessorsRef :
          /\ audioProcessorsRef[k] <= last.nChains
          /\ \A p \in Listed(remoteParticipants) : p.sessionId = k => p.audioStream = NoStream

----------------------------------------------------------------------------
(* Callbacks of several chains *)

EventTimes(es) == [j \in 1..Len(es) |-> es[j].time]

\* Every chain has the timestamp and has written the events that its callback,
\* given the chain's own frames at their own times and nothing else, arrives at.
AsIfAlone ==
    \A i \in 1..Len(chains) :
        /\ chains[i].lastLogTime = alone[i].lastLogTime
        /\ EventTimes(EventsOfChain(i)) = alone[i].times

\* C16: an audioprocess callback on one chain leaves the registry, every other
\* chain and every other chain's events as they were; and however the callbacks
\* of the chains interleave, each chain has emitted the events it would have
\* emitted running alone on the same frames at the same times.
C16_ThrottlePrivate ==
    [][/\ last'.op = "audio" =>
             /\ audioProcessorsRef' = audioProcessorsRef
             /\ \A j \in (1..Len(chains)) \ {last'.chain} :
                   /\ chains'[j] = chains[j]
                   /\ SelectSeq(events', LAMBDA e : e.chain = j) = EventsOfChain(j)
       /\ AsIfAlone'
      ]_vars

\* A callback has just emitted on one chain while another live chain's own last
\* event is less than LOG_INTERVAL old.
C16_Witness ==
    /\ last.op = "audio"
    /\ chains[last.chain].lastLogTime = now
    /\ \E j \in (1..Len(chains)) \ {last.chain} :
          /\ Firing(j)
          /\ ~NeverEmitted(j)
          /\ now - LastEventTime(j) < LOG_INTERVAL

----------------------------------------------------------------------------
(* What the cleanup disconnects *)

\* C17: a teardown (a change of the local participant, or the unmount) leaves
\* every chain that was in the registry with its source and its processor
\* disconnected and its analyser still connected to the processor, leaves the
\* chains that were not in the registry as they were, and leaves in the registry
\* nothing that was there before.
C17_TeardownDisconnectsTwoOfThree ==
    [][last'.op \in {"local", "unmount"} =>
        /\ \A k \in DOMAIN audioProcessorsRef :
              LET i == audioProcessorsRef[k]
              IN  /\ ~chains'[i].sourceToAnalyser
                  /\ ~chains'[i].processorToDestination
                  /\ chains'[i].analyserToProcessor = chains[i].analyserToProcessor
                  /\ chains'[i].analyserToProcessor
        /\ \A i \in 1..Len(chains) :
              i \notin {audioProcessorsRef[k] : k \in DOMAIN audioProcessorsRef}
                  => chains'[i] = chains[i]
        /\ \A k \in DOMAIN audioProcessorsRef' : audioProcessorsRef'[k] > Len(chains)
      ]_vars

\* The cleanup has just run over a registry of two chains: both have lost their
\* source and processor connections and kept the analyser's.
C17_Witness ==
    /\ last.op \in {"local", "unmount"}
    /\ tornDown = 2
    /\ \A i \in 1..2 :
          /\ ~chains[i].sourceToAnalyser
          /\ ~chains[i].processorToDestination
          /\ chains[i].analyserToProcessor

----------------------------------------------------------------------------
(* Contexts and the chains built on them *)

OpenContexts == {c \in 1..Len(contexts) : contexts[c] = "open"}

\* C18: at most one AudioContext is open; every chain in the registry was built
\* on the context audioContextRef holds, and that context is open (so no entry
\* has outlived the closing of its context); and no call of processAudioStream
\* in the last commit found audioContextRef empty or its context closed.
C18_RegistryOnOpenContext ==
    /\ Cardinality(OpenContexts) <= 1
    /\ \A k \in DOMAIN audioProcessorsRef :
          /\ chains[audioProcessorsRef[k]].ctx = audioContextRef
          /\ audioContextRef \in OpenContexts
    /\ ~last.stale

\* A change of the local participant has closed the first context, on which a
\* chain had been built, and has registered a chain built on the second.
C18_Witness ==
    /\ last.op = "local"
    /\ contexts = <<"closed", "open">>
    /\ \E i \in 1..Len(chains) : chains[i].ctx = 1
    /\ \E k \in DOMAIN audioProcessorsRef : chains[audioProcessorsRef[k]].ctx = 2

============================================================================
